---- MODULE Spec2Model ----
(***************************************************************************)
(* Model of bin/topology_1D.py: the three readers (read_csv, read_bpseq,   *)
(* read_jv), the bracket matcher find_parens, the helix segmenter          *)
(* create_helices and the residue range computed in main.                  *)
(*                                                                         *)
(* Python values are modelled as follows.  A str is a sequence of          *)
(* one-character strings ("12" is <<"1","2">>), an int is an integer, a    *)
(* list or tuple is a sequence, a dict is a sequence of <<key, value>>     *)
(* items in insertion order (find_parens) or a function on its key set     *)
(* (helix_basepairs).  Python indices are 0-based, sequence indices        *)
(* 1-based, so Python's x[k] is x[k+1] here.                               *)
(***************************************************************************)
EXTENDS Integers, Sequences, FiniteSets, TLC

VARIABLES
    pc,                 \* position in the program
    exc,                \* the exception raised, or NoExc
    s, i, pstack, toret, tupled_toret,  \* find_parens: argument, locals, result
    jv_file, anno_resi,                 \* read_jv: the file's lines, local
    csv_file, bp_file,                  \* read_csv, read_bpseq: the files' rows
    file_pos,                           \* rows or lines of the open file consumed
    line_count, cannonical_tuples,      \* read_csv, read_bpseq: locals
    csv_tups, bp_tups,                  \* the lists the two readers returned
    cann_tups,                          \* main: the raw pair collection
    ordered_basepairs, bp_num, helix_num, helix_basepairs,  \* create_helices
    maxresi, minresi                    \* main: residue range

parensVars == <<s, i, pstack, toret, tupled_toret>>
jvVars == <<jv_file, anno_resi>>
readerVars == <<csv_file, bp_file, line_count, cannonical_tuples, csv_tups, bp_tups>>
helixVars == <<cann_tups, ordered_basepairs, bp_num, helix_num, helix_basepairs>>
mainVars == <<maxresi, minresi>>
vars == <<pc, exc, parensVars, jvVars, file_pos, readerVars, helixVars, mainVars>>

NoExc == [type |-> "none", at |-> -1]
\* a local that no assignment has bound yet
Unbound == [bound |-> FALSE, val |-> <<>>]
Bound(v) == [bound |-> TRUE, val |-> v]

\* ---------------------------------------------------------------- bounds
MaxLen == 5             \* longest bracket payload handed to find_parens
MaxSeg == 2             \* most segments in the payload of an annotation line
MaxLines == 3           \* most lines in a segment-annotation file
MaxCoord == 2            \* coordinates 0..MaxCoord of the pairs given to create_helices
MaxTups == 3            \* longest raw pair collection given to create_helices
MaxPos == 4             \* positions 1..MaxPos of the pairings given to the readers

\* --------------------------------------------------------------- helpers
Last(q) == q[Len(q)]
Front(q) == SubSeq(q, 1, Len(q) - 1)
Range(q) == {q[k] : k \in 1..Len(q)}

RECURSIVE SeqsUpTo(_, _)
SeqsUpTo(S, n) ==
    IF n = 0 THEN {<<>>}
    ELSE LET shorter == SeqsUpTo(S, n - 1)
         IN shorter \cup {Append(q, x) : q \in {r \in shorter : Len(r) = n - 1}, x \in S}

\* dict item assignment d[k] = v on an insertion-ordered dict
DictSet(d, k, v) ==
    IF \E n \in 1..Len(d) : d[n][1] = k
    THEN [n \in 1..Len(d) |-> IF d[n][1] = k THEN <<k, v>> ELSE d[n]]
    ELSE Append(d, <<k, v>>)

\* ------------------------------------------------------- Python builtins
\* int(str) and str(int) on decimal strings
Digits == <<"0", "1", "2", "3", "4", "5", "6", "7", "8", "9">>
DigitVal(c) == CHOOSE d \in 0..9 : Digits[d + 1] = c
RECURSIVE IntOf(_)
IntOf(str) ==
    IF Len(str) = 1 THEN DigitVal(str[1])
    ELSE 10 * IntOf(Front(str)) + DigitVal(Last(str))
RECURSIVE StrOf(_)
StrOf(n) ==
    IF n < 10 THEN <<Digits[n + 1]>>
    ELSE Append(StrOf(n \div 10), Digits[(n % 10) + 1])

\* str.split(sep) for a one-character separator
RECURSIVE Split(_, _)
Split(str, sep) ==
    IF \A k \in 1..Len(str) : str[k] # sep THEN <<str>>
    ELSE LET k == CHOOSE k \in 1..Len(str) :
                      str[k] = sep /\ \A j \in 1..(k - 1) : str[j] # sep
         IN <<SubSeq(str, 1, k - 1)>> \o Split(SubSeq(str, k + 1, Len(str)), sep)

\* == on values of type str or int: values of different types are unequal
PyStr(v) == [type |-> "str", val |-> v]
PyInt(v) == [type |-> "int", val |-> v]
PyEq(a, b) == a.type = b.type /\ a.val = b.val
\* t in list, for a 2-tuple t and a list of 2-tuples of int
PyIn(t, list) ==
    \E k \in 1..Len(list) :
        PyEq(t[1], PyInt(list[k][1])) /\ PyEq(t[2], PyInt(list[k][2]))

\* sorted() on a set of 2-tuples of int: tuples compare lexicographically
LexLess(a, b) == a[1] < b[1] \/ (a[1] = b[1] /\ a[2] < b[2])
RECURSIVE Sorted(_)
Sorted(S) ==
    IF S = {} THEN <<>>
    ELSE LET m == CHOOSE x \in S : \A y \in S : x = y \/ LexLess(x, y)
         IN <<m>> \o Sorted(S \ {m})

\* sorted(list(set(cann_tups)))
OrderedBasepairs(tups) == Sorted(Range(tups))

\* --------------------------------------------------------------- read_csv
base_pairs == <<<<"A", "U">>, <<"G", "C">>, <<"G", "U">>>>

\* (int(row[0].split(':')[1]), int(row[2].split(':')[1]))
CsvPair(row) == <<IntOf(Split(row[1], ":")[2]), IntOf(Split(row[3], ":")[2])>>

\* The body of the loop on a data row: one append per entry of base_pairs
ReadCsvBody(tuples, row) ==
    tuples \o [k \in 1..Len(base_pairs) |-> CsvPair(row)]

ReadCsvEnter ==
    /\ pc = "call_read_csv"
    /\ cannonical_tuples' = <<>>
    /\ line_count' = 0
    /\ file_pos' = 0
    /\ pc' = "read_csv"
    /\ UNCHANGED <<exc, csv_file, bp_file, csv_tups, bp_tups>>
    /\ UNCHANGED <<parensVars, jvVars, helixVars, mainVars>>

ReadCsvHeader ==
    /\ pc = "read_csv"
    /\ file_pos < Len(csv_file)
    /\ line_count = 0
    /\ line_count' = line_count + 1
    /\ file_pos' = file_pos + 1
    /\ UNCHANGED <<pc, exc, csv_file, bp_file, cannonical_tuples, csv_tups, bp_tups>>
    /\ UNCHANGED <<parensVars, jvVars, helixVars, mainVars>>

ReadCsvRow ==
    /\ pc = "read_csv"
    /\ file_pos < Len(csv_file)
    /\ line_count # 0
    /\ line_count' = line_count + 1
    /\ cannonical_tuples' = ReadCsvBody(cannonical_tuples, csv_file[file_pos + 1])
    /\ file_pos' = file_pos + 1
    /\ UNCHANGED <<pc, exc, csv_file, bp_file, csv_tups, bp_tups>>
    /\ UNCHANGED <<parensVars, jvVars, helixVars, mainVars>>

\* read_csv returns; the other reader is called next
ReadCsvReturn ==
    /\ pc = "read_csv"
    /\ file_pos = Len(csv_file)
    /\ csv_tups' = cannonical_tuples
    /\ pc' = "call_read_bpseq"
    /\ UNCHANGED <<exc, csv_file, bp_file, file_pos, line_count, cannonical_tuples, bp_tups>>
    /\ UNCHANGED <<parensVars, jvVars, helixVars, mainVars>>

\* ------------------------------------------------------------- read_bpseq
\* A row is row.split(): its whitespace-separated fields.
\* Variant of the loop body whose membership test compares ints with ints.
ReadBpseqBodyInts(tuples, row) ==
    IF IntOf(row[1]) = 0 \/ IntOf(row[3]) = 0 THEN tuples
    ELSE IF Len(tuples) < 1 THEN Append(tuples, <<IntOf(row[1]), IntOf(row[3])>>)
    ELSE IF \/ PyIn(<<PyInt(IntOf(row[1])), PyInt(IntOf(row[3]))>>, tuples)
            \/ PyIn(<<PyInt(IntOf(row[3])), PyInt(IntOf(row[1]))>>, tuples)
         THEN tuples
         ELSE Append(tuples, <<IntOf(row[1]), IntOf(row[3])>>)

\* The body of the loop on a row; the membership test is made on the
\* fields as read, which are str
ReadBpseqBody(tuples, row) ==
    IF IntOf(row[1]) = 0 \/ IntOf(row[3]) = 0 THEN tuples
    ELSE IF Len(tuples) < 1 THEN Append(tuples, <<IntOf(row[1]), IntOf(row[3])>>)
    ELSE IF \/ PyIn(<<PyStr(row[1]), PyStr(row[3])>>, tuples)
            \/ PyIn(<<PyStr(row[3]), PyStr(row[1])>>, tuples)
         THEN tuples
         ELSE Append(tuples, <<IntOf(row[1]), IntOf(row[3])>>)

ReadBpseqEnter ==
    /\ pc = "call_read_bpseq"
    /\ cannonical_tuples' = <<>>
    /\ file_pos' = 0
    /\ pc' = "read_bpseq"
    /\ UNCHANGED <<exc, csv_file, bp_file, line_count, csv_tups, bp_tups>>
    /\ UNCHANGED <<parensVars, jvVars, helixVars, mainVars>>

ReadBpseqRow ==
    /\ pc = "read_bpseq"
    /\ file_pos < Len(bp_file)
    /\ cannonical_tuples' = ReadBpseqBody(cannonical_tuples, bp_file[file_pos + 1])
    /\ file_pos' = file_pos + 1
    /\ UNCHANGED <<pc, exc, csv_file, bp_file, line_count, csv_tups, bp_tups>>
    /\ UNCHANGED <<parensVars, jvVars, helixVars, mainVars>>

ReadBpseqReturn ==
    /\ pc = "read_bpseq"
    /\ file_pos = Len(bp_file)
    /\ bp_tups' = cannonical_tuples
    /\ pc' = "done"
    /\ UNCHANGED <<exc, csv_file, bp_file, file_pos, line_count, cannonical_tuples, csv_tups>>
    /\ UNCHANGED <<parensVars, jvVars, helixVars, mainVars>>

\* ------------------------------------------------------------ find_parens
Symbols == {"(", ")", "."}

\* Variant of the loop body that pairs a closing bracket with the oldest open
\* bracket (pstack.pop(0)) instead of the most recent one.
FindParensBodyOldest(c, n, stack, ret) ==
    IF c = "("
    THEN [pstack |-> Append(stack, n), toret |-> ret, raise_at |-> -1]
    ELSE IF c = ")"
         THEN IF Len(stack) = 0
              THEN [pstack |-> stack, toret |-> ret, raise_at |-> n]
              ELSE [pstack |-> Tail(stack),
                    toret |-> DictSet(ret, Head(stack), n), raise_at |-> -1]
         ELSE [pstack |-> stack, toret |-> ret, raise_at |-> -1]

\* One iteration of the scan loop on symbol c at index n, as a function of
\* the locals; raise_at >= 0 records the index carried by the IndexError.
FindParensBody(c, n, stack, ret) ==
    IF c = "("
    THEN [pstack |-> Append(stack, n), toret |-> ret, raise_at |-> -1]
    ELSE IF c = ")"
         THEN IF Len(stack) = 0
              THEN [pstack |-> stack, toret |-> ret, raise_at |-> n]
              ELSE [pstack |-> Front(stack),
                    toret |-> DictSet(ret, Last(stack), n), raise_at |-> -1]
         ELSE [pstack |-> stack, toret |-> ret, raise_at |-> -1]

\* Variant that names the bottom of the stack (pstack[0]).
UnclosedIndexBottom(stack) == Head(stack)

\* The index named after the scan when brackets are still open: pstack.pop()
UnclosedIndex(stack) == Last(stack)

\* toret.items() turned into a list of tuples
TupledToret(ret) == ret

FindParensIter ==
    /\ pc = "find_parens"
    /\ i < Len(s)
    /\ LET b == FindParensBody(s[i + 1], i, pstack, toret)
       IN IF b.raise_at >= 0
          THEN /\ pc' = "raised"
               /\ exc' = [type |-> "IndexError", at |-> b.raise_at]
               /\ UNCHANGED <<i, pstack, toret>>
          ELSE /\ pstack' = b.pstack
               /\ toret' = b.toret
               /\ i' = i + 1
               /\ UNCHANGED <<pc, exc>>
    /\ UNCHANGED <<s, tupled_toret>>
    /\ UNCHANGED <<jvVars, file_pos, readerVars, helixVars, mainVars>>

\* the four ways through the loop body
FindParensOpen ==
    pc = "find_parens" /\ i < Len(s) /\ s[i + 1] = "(" /\ FindParensIter
FindParensClose ==
    pc = "find_parens" /\ i < Len(s) /\ s[i + 1] = ")" /\ Len(pstack) > 0 /\ FindParensIter
FindParensCloseRaise ==
    pc = "find_parens" /\ i < Len(s) /\ s[i + 1] = ")" /\ Len(pstack) = 0 /\ FindParensIter
FindParensOther ==
    pc = "find_parens" /\ i < Len(s) /\ s[i + 1] \notin {"(", ")"} /\ FindParensIter

FindParensUnclosedRaise ==
    /\ pc = "find_parens"
    /\ i = Len(s)
    /\ Len(pstack) > 0
    /\ pc' = "raised"
    /\ exc' = [type |-> "IndexError", at |-> UnclosedIndex(pstack)]
    /\ pstack' = Front(pstack)
    /\ UNCHANGED <<s, i, toret, tupled_toret>>
    /\ UNCHANGED <<jvVars, file_pos, readerVars, helixVars, mainVars>>

FindParensReturn ==
    /\ pc = "find_parens"
    /\ i = Len(s)
    /\ Len(pstack) = 0
    /\ tupled_toret' = TupledToret(toret)
    /\ pc' = "returned"
    /\ UNCHANGED <<exc, s, i, pstack, toret>>
    /\ UNCHANGED <<jvVars, file_pos, readerVars, helixVars, mainVars>>

\* find_parens as a whole: the scan from index n on, then lines 78-83
RECURSIVE FindParensScan(_, _, _, _)
FindParensScan(str, n, stack, ret) ==
    IF n = Len(str)
    THEN IF Len(stack) > 0
         THEN [raised |-> TRUE, at |-> UnclosedIndex(stack), pairs |-> <<>>]
         ELSE [raised |-> FALSE, at |-> -1, pairs |-> TupledToret(ret)]
    ELSE LET b == FindParensBody(str[n + 1], n, stack, ret)
         IN IF b.raise_at >= 0
            THEN [raised |-> TRUE, at |-> b.raise_at, pairs |-> <<>>]
            ELSE FindParensScan(str, n + 1, b.pstack, b.toret)

FindParens(str) == FindParensScan(str, 0, <<>>, <<>>)

\* ---------------------------------------------------------------- read_jv
\* A line is its leading text (what the regular expression is matched on:
\* the first two tab-separated fields of a matching line), the
\* tab-separated fields that follow it, so that line.split('\t')[2] is
\* fields[1], and its terminator: iterating over the file leaves the '\n'
\* on every line that has one. A field is its '|'-separated segments, and
\* a segment is its text, followed or not by the marker ",[000000]".
AnnoHeader == "NO_GRAPH\tSecondary structure"
OtherHeader == "JALVIEW_ANNOTATION"
Matches(line) == line.header = AnnoHeader
\* line.split('\t')[2] raises IndexError on a line of fewer than 3 fields
HasThirdField(line) == Len(line.fields) >= 1
\* what the line's terminator leaves at the end of its last field
LineEnd(line) == IF line.nl THEN "\n" ELSE ""
\* line.split('\t')[2].split('|'): the segments of the third field; when it
\* is the last field of the line, its last segment ends with the line's
\* terminator
ThirdFieldSegments(line) ==
    LET f == line.fields[1]
    IN [k \in 1..Len(f) |->
           [text |-> f[k].text, marker |-> f[k].marker,
            tail |-> IF k = Len(f) /\ Len(line.fields) = 1
                     THEN LineEnd(line) ELSE ""]]
\* w.replace(',[000000]', ''): the marker goes, what follows it stays
StripMarker(w) == w.text \o w.tail
AnnoResi(line) ==
    LET ws == ThirdFieldSegments(line)
    IN [k \in 1..Len(ws) |-> StripMarker(ws[k])]

\* Variant of the loop body that keeps the first matching line (as a break
\* after the assignment would).
ReadJvBodyFirst(cur, line) ==
    IF Matches(line)
    THEN IF HasThirdField(line)
         THEN [anno |-> IF cur.bound THEN cur ELSE Bound(AnnoResi(line)), raised |-> FALSE]
         ELSE [anno |-> cur, raised |-> TRUE]
    ELSE [anno |-> cur, raised |-> FALSE]

\* The loop body: a matching line rebinds anno_resi, or raises the
\* IndexError of split('\t')[2] when it has no third field
ReadJvBody(cur, line) ==
    IF Matches(line)
    THEN IF HasThirdField(line)
         THEN [anno |-> Bound(AnnoResi(line)), raised |-> FALSE]
         ELSE [anno |-> cur, raised |-> TRUE]
    ELSE [anno |-> cur, raised |-> FALSE]

ReadJvLine ==
    /\ pc = "read_jv"
    /\ file_pos < Len(jv_file)
    /\ LET b == ReadJvBody(anno_resi, jv_file[file_pos + 1])
       IN IF b.raised
          THEN /\ pc' = "raised"
               /\ exc' = [type |-> "IndexError", at |-> -1]
               /\ UNCHANGED <<anno_resi, file_pos>>
          ELSE /\ anno_resi' = b.anno
               /\ file_pos' = file_pos + 1
               /\ UNCHANGED <<pc, exc>>
    /\ UNCHANGED <<jv_file, parensVars, readerVars, helixVars, mainVars>>

\* the three ways through the loop body
ReadJvMatch == pc = "read_jv" /\ file_pos < Len(jv_file)
               /\ Matches(jv_file[file_pos + 1])
               /\ HasThirdField(jv_file[file_pos + 1]) /\ ReadJvLine
ReadJvShortRaise == pc = "read_jv" /\ file_pos < Len(jv_file)
                    /\ Matches(jv_file[file_pos + 1])
                    /\ ~HasThirdField(jv_file[file_pos + 1]) /\ ReadJvLine
ReadJvSkip == pc = "read_jv" /\ file_pos < Len(jv_file)
              /\ ~Matches(jv_file[file_pos + 1]) /\ ReadJvLine

\* return find_parens(anno_resi), no line having bound anno_resi
ReadJvUnbound ==
    /\ pc = "read_jv"
    /\ file_pos = Len(jv_file)
    /\ ~anno_resi.bound
    /\ pc' = "raised"
    /\ exc' = [type |-> "UnboundLocalError", at |-> -1]
    /\ UNCHANGED <<jvVars, file_pos, parensVars, readerVars, helixVars, mainVars>>

\* return find_parens(anno_resi)
ReadJvReturn ==
    /\ pc = "read_jv"
    /\ file_pos = Len(jv_file)
    /\ anno_resi.bound
    /\ LET r == FindParens(anno_resi.val)
       IN /\ s' = anno_resi.val
          /\ pc' = IF r.raised THEN "raised" ELSE "returned"
          /\ exc' = IF r.raised THEN [type |-> "IndexError", at |-> r.at] ELSE exc
          /\ tupled_toret' = r.pairs
    /\ UNCHANGED <<i, pstack, toret>>
    /\ UNCHANGED <<jvVars, file_pos, readerVars, helixVars, mainVars>>

\* --------------------------------------------------------- create_helices
\* helix_basepairs[k] = v on a dict from helix index to pair list
DictPut(d, k, v) == [h \in (DOMAIN d) \cup {k} |-> IF h = k THEN v ELSE d[h]]

\* Variant of the test that looks at the first strand only.
AdjacentFirstStrand(bp, prev) == bp[1] - 1 = prev[1]

\* The test of line 94 on the pair bp and the pair before it
Adjacent(bp, prev) == (bp[1] - 1 = prev[1]) \/ (bp[2] - 1 = prev[2])

\* Variant that returns the number of helices.
CreateHelicesResultCount(hb, hn) == <<hb, hn + 1>>

\* return helix_basepairs, helix_num
CreateHelicesResult(hb, hn) == <<hb, hn>>

\* Variant that opens helix 0 before the walk.
CreateHelicesEnterEager ==
    /\ pc = "create_helices"
    /\ ordered_basepairs' = OrderedBasepairs(cann_tups)
    /\ helix_num' = 0
    /\ helix_basepairs' = DictPut(<<>>, 0, <<>>)
    /\ bp_num' = 0
    /\ pc' = "segment"
    /\ UNCHANGED <<exc, cann_tups, parensVars, jvVars, file_pos, readerVars, mainVars>>

\* lines 88-90
CreateHelicesEnter ==
    /\ pc = "create_helices"
    /\ ordered_basepairs' = OrderedBasepairs(cann_tups)
    /\ helix_num' = 0
    /\ helix_basepairs' = <<>>
    /\ bp_num' = 0
    /\ pc' = "segment"
    /\ UNCHANGED <<exc, cann_tups, parensVars, jvVars, file_pos, readerVars, mainVars>>

\* bp_num = 0: lines 100-101
SegmentFirst ==
    /\ pc = "segment"
    /\ bp_num < Len(ordered_basepairs)
    /\ bp_num = 0
    /\ helix_basepairs' =
           DictPut(helix_basepairs, helix_num, <<ordered_basepairs[bp_num + 1]>>)
    /\ bp_num' = bp_num + 1
    /\ UNCHANGED <<pc, exc, cann_tups, ordered_basepairs, helix_num>>
    /\ UNCHANGED <<parensVars, jvVars, file_pos, readerVars, mainVars>>

\* bp_num > 0 and the test holds: line 95
SegmentAppend ==
    /\ pc = "segment"
    /\ bp_num < Len(ordered_basepairs)
    /\ bp_num > 0
    /\ Adjacent(ordered_basepairs[bp_num + 1], ordered_basepairs[bp_num])
    /\ helix_basepairs' =
           [helix_basepairs EXCEPT ![helix_num] = Append(@, ordered_basepairs[bp_num + 1])]
    /\ bp_num' = bp_num + 1
    /\ UNCHANGED <<pc, exc, cann_tups, ordered_basepairs, helix_num>>
    /\ UNCHANGED <<parensVars, jvVars, file_pos, readerVars, mainVars>>

\* bp_num > 0 and the test fails: lines 97-98
SegmentOpen ==
    /\ pc = "segment"
    /\ bp_num < Len(ordered_basepairs)
    /\ bp_num > 0
    /\ ~Adjacent(ordered_basepairs[bp_num + 1], ordered_basepairs[bp_num])
    /\ helix_num' = helix_num + 1
    /\ helix_basepairs' = DictPut(helix_basepairs, helix_num + 1, <<>>)
    /\ bp_num' = bp_num + 1
    /\ UNCHANGED <<pc, exc, cann_tups, ordered_basepairs>>
    /\ UNCHANGED <<parensVars, jvVars, file_pos, readerVars, mainVars>>

\* line 102, and the assignment of line 112 in main
CreateHelicesReturn ==
    /\ pc = "segment"
    /\ bp_num = Len(ordered_basepairs)
    /\ helix_basepairs' = CreateHelicesResult(helix_basepairs, helix_num)[1]
    /\ helix_num' = CreateHelicesResult(helix_basepairs, helix_num)[2]
    /\ pc' = "main_range"
    /\ UNCHANGED <<exc, cann_tups, ordered_basepairs, bp_num>>
    /\ UNCHANGED <<parensVars, jvVars, file_pos, readerVars, mainVars>>

\* ------------------------------------------------------------------- main
\* max(list, key=lambda item: item[k]) and min(...): the first item of the
\* list whose k-th coordinate is greatest (least)
PyMaxByKey(list, k) ==
    list[CHOOSE n \in 1..Len(list) :
            /\ \A m \in 1..Len(list) : list[m][k] <= list[n][k]
            /\ \A m \in 1..(n - 1) : list[m][k] < list[n][k]]
PyMinByKey(list, k) ==
    list[CHOOSE n \in 1..Len(list) :
            /\ \A m \in 1..Len(list) : list[m][k] >= list[n][k]
            /\ \A m \in 1..(n - 1) : list[m][k] > list[n][k]]
\* max and min of a tuple or list of ints
PyMax(q) == CHOOSE x \in Range(q) : \A y \in Range(q) : y <= x
PyMin(q) == CHOOSE x \in Range(q) : \A y \in Range(q) : x <= y

\* Variant that looks only at the pair with the greatest first coordinate.
MaxResiFirstKey(tups) == PyMax(PyMaxByKey(tups, 1))

\* line 115
MaxResi(tups) == PyMax(<<PyMax(PyMaxByKey(tups, 1)), PyMax(PyMaxByKey(tups, 2))>>)
\* line 116
MinResi(tups) == PyMin(<<PyMin(PyMinByKey(tups, 1)), PyMin(PyMinByKey(tups, 2))>>)

MainRange ==
    /\ pc = "main_range"
    /\ cann_tups # <<>>
    /\ maxresi' = MaxResi(cann_tups)
    /\ minresi' = MinResi(cann_tups)
    /\ pc' = "plot"
    /\ UNCHANGED <<exc, parensVars, jvVars, file_pos, readerVars, helixVars>>

\* max() of an empty list
MainRangeRaise ==
    /\ pc = "main_range"
    /\ cann_tups = <<>>
    /\ pc' = "raised"
    /\ exc' = [type |-> "ValueError", at |-> -1]
    /\ UNCHANGED <<parensVars, jvVars, file_pos, readerVars, helixVars, mainVars>>

\* Values of the variables a specification does not use.
IdleParens == s = <<>> /\ i = 0 /\ pstack = <<>> /\ toret = <<>> /\ tupled_toret = <<>>
IdleJv == jv_file = <<>> /\ anno_resi = Unbound
IdleReaders ==
    /\ csv_file = <<>> /\ bp_file = <<>>
    /\ line_count = 0 /\ cannonical_tuples = <<>>
    /\ csv_tups = <<>> /\ bp_tups = <<>>
IdleHelices ==
    /\ cann_tups = <<>> /\ ordered_basepairs = <<>>
    /\ bp_num = 0 /\ helix_num = 0 /\ helix_basepairs = <<>>
IdleMain == maxresi = 0 /\ minresi = 0

\* find_parens called on any payload of at most MaxLen symbols
InitParens ==
    /\ pc = "find_parens"
    /\ exc = NoExc
    /\ s \in SeqsUpTo(Symbols, MaxLen)
    /\ i = 0
    /\ pstack = <<>>
    /\ toret = <<>>
    /\ tupled_toret = <<>>
    /\ file_pos = 0
    /\ IdleJv /\ IdleReaders /\ IdleHelices /\ IdleMain

NextParens ==
    \/ FindParensOpen
    \/ FindParensClose
    \/ FindParensCloseRaise
    \/ FindParensOther
    \/ FindParensUnclosedRaise
    \/ FindParensReturn

SpecParens == InitParens /\ [][NextParens]_vars

\* main from the call of create_helices on, for any raw pair collection of
\* at most MaxTups pairs: the readers return any list of pairs of ints
RawPairs == (0..MaxCoord) \X (0..MaxCoord)

Init ==
    /\ pc = "create_helices"
    /\ exc = NoExc
    /\ cann_tups \in SeqsUpTo(RawPairs, MaxTups)
    /\ ordered_basepairs = <<>>
    /\ bp_num = 0
    /\ helix_num = 0
    /\ helix_basepairs = <<>>
    /\ file_pos = 0
    /\ IdleParens /\ IdleJv /\ IdleReaders /\ IdleMain

Next ==
    \/ CreateHelicesEnter
    \/ SegmentFirst
    \/ SegmentAppend
    \/ SegmentOpen
    \/ CreateHelicesReturn
    \/ MainRange
    \/ MainRangeRaise

Spec == Init /\ [][Next]_vars

\* read_jv called on any file of at most MaxLines lines. A line is a
\* matching line with a third field of 1..MaxSeg bracket segments (str.split
\* never returns an empty list), a matching line that ends after its second
\* field, or a line that does not match. A file is written with or without
\* a '|' after the last segment of each third field (which gives split('|')
\* one more, empty, segment), and with or without a terminator on its last
\* line; every line before the last has its terminator.
JvSegments ==
    {[text |-> "(", marker |-> TRUE], [text |-> ")", marker |-> FALSE]}
EmptySegment == [text |-> "", marker |-> FALSE]
JvLines ==
    {[header |-> AnnoHeader, fields |-> <<p>>] : p \in SeqsUpTo(JvSegments, MaxSeg) \ {<<>>}}
        \cup {[header |-> AnnoHeader, fields |-> <<>>],
              [header |-> OtherHeader, fields |-> <<>>]}
WriteJvLine(line, sep, nl) ==
    [header |-> line.header,
     fields |-> [k \in 1..Len(line.fields) |->
                    IF sep THEN Append(line.fields[k], EmptySegment)
                    ELSE line.fields[k]],
     nl |-> nl]
JvFiles ==
    {[k \in 1..Len(lines) |-> WriteJvLine(lines[k], sep, k < Len(lines) \/ final_nl)] :
        lines \in SeqsUpTo(JvLines, MaxLines), sep \in BOOLEAN, final_nl \in BOOLEAN}

InitJv ==
    /\ pc = "read_jv"
    /\ exc = NoExc
    /\ jv_file \in JvFiles
    /\ file_pos = 0
    /\ anno_resi = Unbound
    /\ IdleParens /\ IdleReaders /\ IdleHelices /\ IdleMain

NextJv ==
    \/ ReadJvMatch
    \/ ReadJvShortRaise
    \/ ReadJvSkip
    \/ ReadJvUnbound
    \/ ReadJvReturn

SpecJv == InitJv /\ [][NextJv]_vars

\* The two table formats written for one pairing: a set of pairs <<p, q>>,
\* p < q, no position in two pairs.
Pairings ==
    {P \in SUBSET {pq \in (1..MaxPos) \X (1..MaxPos) : pq[1] < pq[2]} :
        \A a, b \in P : a # b => {a[1], a[2]} \cap {b[1], b[2]} = {}}
\* contact table: a header row, then one row per pair
CsvField(n) == <<"A", ":">> \o StrOf(n)
CsvHeaderRow == <<<<"r", "e", "s", "1">>, <<"b", "p">>, <<"r", "e", "s", "2">>>>
CsvFileOf(P) ==
    <<CsvHeaderRow>> \o [k \in 1..Cardinality(P) |->
                            <<CsvField(Sorted(P)[k][1]), <<"c", "W", "W">>,
                              CsvField(Sorted(P)[k][2])>>]
\* residue-pair table: one row per residue, 0 for an unpaired residue; a pair
\* is listed on both its residues' rows, or on the row of its first residue
Partner(P, r, style) ==
    IF \E pq \in P : pq[1] = r THEN (CHOOSE pq \in P : pq[1] = r)[2]
    ELSE IF style = "both" /\ \E pq \in P : pq[2] = r
         THEN (CHOOSE pq \in P : pq[2] = r)[1]
         ELSE 0
BpseqFileOf(P, style) ==
    [r \in 1..MaxPos |-> <<StrOf(r), <<"N">>, StrOf(Partner(P, r, style))>>]

InitFormats ==
    /\ pc = "call_read_csv"
    /\ exc = NoExc
    /\ \E P \in Pairings, style \in {"once", "both"} :
           /\ csv_file = CsvFileOf(P)
           /\ bp_file = BpseqFileOf(P, style)
    /\ file_pos = 0
    /\ line_count = 0
    /\ cannonical_tuples = <<>>
    /\ csv_tups = <<>>
    /\ bp_tups = <<>>
    /\ IdleParens /\ IdleJv /\ IdleHelices /\ IdleMain

NextFormats ==
    \/ ReadCsvEnter
    \/ ReadCsvHeader
    \/ ReadCsvRow
    \/ ReadCsvReturn
    \/ ReadBpseqEnter
    \/ ReadBpseqRow
    \/ ReadBpseqReturn

SpecFormats == InitFormats /\ [][NextFormats]_vars

\* ------------------------------------------------- properties: find_parens
\* Reference bracket matching, defined on the payload alone.
Indices(str) == 0..(Len(str) - 1)
Opens(str, a, b) == Cardinality({k \in a..b : str[k + 1] = "("})
Closes(str, a, b) == Cardinality({k \in a..b : str[k + 1] = ")"})
\* str[a..b] is balanced: no prefix closes more than it opens, all is closed
BalancedBetween(str, a, b) ==
    /\ \A k \in a..b : Closes(str, a, k) <= Opens(str, a, k)
    /\ Closes(str, a, b) = Opens(str, a, b)
IsBalanced(str) == BalancedBetween(str, 0, Len(str) - 1)
RefMatching(str) ==
    {oc \in Indices(str) \X Indices(str) :
        /\ oc[1] < oc[2]
        /\ str[oc[1] + 1] = "(" /\ str[oc[2] + 1] = ")"
        /\ BalancedBetween(str, oc[1] + 1, oc[2] - 1)}
\* closing brackets met while nothing is open
UnmatchedCloses(str) ==
    {c \in Indices(str) : str[c + 1] = ")" /\ Closes(str, 0, c) > Opens(str, 0, c)}
\* opening brackets that no later closing bracket matches
UnmatchedOpens(str) ==
    {o \in Indices(str) : str[o + 1] = "(" /\ ~\E c \in Indices(str) : <<o, c>> \in RefMatching(str)}
MinOf(S) == CHOOSE x \in S : \A y \in S : x <= y
MaxOf(S) == CHOOSE x \in S : \A y \in S : y <= x
Crossing(a, b) == a[1] < b[1] /\ b[1] < a[2] /\ a[2] < b[2]

\* C4: on a balanced payload find_parens does not raise, and it returns one
\* pair (o, c) per closing bracket, c that bracket's index and o the index of
\* the most recent still-unmatched opening bracket before c: o < c, no index
\* is in two pairs, no two pairs cross, and the pairs are the reference
\* bracket matching.
C4_BalancedMatching ==
    IsBalanced(s) =>
        /\ pc # "raised"
        /\ pc = "returned" =>
            /\ Len(tupled_toret) = Closes(s, 0, Len(s) - 1)
            /\ \A c \in Indices(s) : s[c + 1] = ")" =>
                   Cardinality({n \in 1..Len(tupled_toret) : tupled_toret[n][2] = c}) = 1
            /\ \A n \in 1..Len(tupled_toret) :
                   LET o == tupled_toret[n][1]
                       c == tupled_toret[n][2]
                   IN /\ o < c /\ s[o + 1] = "(" /\ s[c + 1] = ")"
                      /\ o = MaxOf({k \in 0..(c - 1) :
                                       /\ s[k + 1] = "("
                                       /\ ~\E d \in 0..(c - 1) : <<k, d>> \in RefMatching(s)})
            /\ \A n, m \in 1..Len(tupled_toret) : n # m =>
                   /\ {tupled_toret[n][1], tupled_toret[n][2]}
                        \cap {tupled_toret[m][1], tupled_toret[m][2]} = {}
                   /\ ~Crossing(tupled_toret[n], tupled_toret[m])
            /\ Range(tupled_toret) = RefMatching(s)

\* the payload "((.))" has been scanned and gave the pairs (0,4) and (1,3)
C4_Witness ==
    /\ pc = "returned"
    /\ s = <<"(", "(", ".", ")", ")">>
    /\ Range(tupled_toret) = {<<0, 4>>, <<1, 3>>}

\* C5 as claimed: on an unbalanced payload find_parens raises and returns no
\* pairs; the index raised is that of the first closing bracket met with
\* nothing open, or else that of the lowest-index opening bracket left
\* unmatched.
C5_ReportsFirstUnmatched ==
    /\ pc = "returned" => IsBalanced(s)
    /\ pc = "raised" =>
        /\ ~IsBalanced(s)
        /\ tupled_toret = <<>>
        /\ exc.at = IF UnmatchedCloses(s) # {}
                     THEN MinOf(UnmatchedCloses(s))
                     ELSE MinOf(UnmatchedOpens(s))

\* C5 amended: ... or else that of the highest-index (most recently opened)
\* opening bracket left unmatched.
C5_ReportsLastOpen ==
    /\ pc = "returned" => IsBalanced(s)
    /\ pc = "raised" =>
        /\ ~IsBalanced(s)
        /\ tupled_toret = <<>>
        /\ exc.type = "IndexError"
        /\ exc.at = IF UnmatchedCloses(s) # {}
                     THEN MinOf(UnmatchedCloses(s))
                     ELSE MaxOf(UnmatchedOpens(s))

\* a scan ended with two brackets still open and named the later one
C5_Witness ==
    /\ pc = "raised"
    /\ UnmatchedCloses(s) = {}
    /\ Cardinality(UnmatchedOpens(s)) >= 2
    /\ exc.at = MaxOf(UnmatchedOpens(s))
    /\ exc.at # MinOf(UnmatchedOpens(s))

\* ------------------------------------- properties: create_helices and main
\* create_helices has returned to main
Returned == pc \in {"main_range", "plot", "raised"}
IsPrefix(a, b) == Len(a) <= Len(b) /\ SubSeq(b, 1, Len(a)) = a
\* the pair lists of helices 0..k, one after the other
RECURSIVE HelicesUpTo(_, _)
HelicesUpTo(hb, k) ==
    IF k < 0 THEN <<>>
    ELSE HelicesUpTo(hb, k - 1) \o (IF k \in DOMAIN hb THEN hb[k] ELSE <<>>)
AllHelices(hb) == IF DOMAIN hb = {} THEN <<>> ELSE HelicesUpTo(hb, MaxOf(DOMAIN hb))
Occurrences(q, x) == Cardinality({n \in 1..Len(q) : q[n] = x})
\* neither strand of ord[n] continues ord[n-1]
Break(ord, n) == ord[n][1] # ord[n - 1][1] + 1 /\ ord[n][2] # ord[n - 1][2] + 1
Breaks(ord) == Cardinality({n \in 2..Len(ord) : Break(ord, n)})

\* C1: for a non-empty input the helices' pair lists, taken in increasing
\* helix index, hold every pair of sorted(set(input)) exactly once.
C1_HelicesPartition ==
    (Returned /\ cann_tups # <<>>) =>
        /\ \A bp \in Range(cann_tups) : Occurrences(AllHelices(helix_basepairs), bp) = 1
        /\ AllHelices(helix_basepairs) = Sorted(Range(cann_tups))

\* C3: the ordered pair sequence holds no two equal tuples, never
\* both (p,q) and (q,p), and is sorted by first coordinate, then by second.
C3_NoUnorderedDuplicates ==
    pc # "create_helices" =>
        /\ \A n, m \in 1..Len(ordered_basepairs) : n # m =>
               /\ ordered_basepairs[n] # ordered_basepairs[m]
               /\ ordered_basepairs[n] # <<ordered_basepairs[m][2], ordered_basepairs[m][1]>>
        /\ \A n \in 2..Len(ordered_basepairs) :
               LexLess(ordered_basepairs[n - 1], ordered_basepairs[n])

\* C6 as claimed: on an empty pair collection create_helices fails with an
\* EmptyInputError and returns nothing.
C6_EmptyInputFails ==
    (cann_tups = <<>> /\ pc \notin {"create_helices", "segment"}) =>
        pc = "raised" /\ exc.type = "EmptyInputError"

\* C6 amended: on an empty pair collection create_helices raises nothing and
\* returns the empty mapping and 0; the run then fails in main, on max() of
\* the empty collection.
C6_EmptyInputReturns ==
    cann_tups = <<>> =>
        /\ pc \in {"create_helices", "segment", "main_range", "raised"}
        /\ pc = "main_range" => exc = NoExc /\ helix_basepairs = <<>> /\ helix_num = 0
        /\ pc = "raised" => exc.type = "ValueError" /\ helix_basepairs = <<>> /\ helix_num = 0

\* create_helices has returned on the empty collection
C6_Witness ==
    cann_tups = <<>> /\ pc = "main_range" /\ helix_basepairs = <<>> /\ helix_num = 0

\* C8 as claimed: for a non-empty input the second value returned is the
\* number of helix indices of the mapping.
C8_SecondIsCount ==
    (pc \in {"main_range", "plot"} /\ cann_tups # <<>>) =>
        helix_num = Cardinality(DOMAIN helix_basepairs)

\* C8 amended: for a non-empty input the second value returned is the
\* greatest helix index of the mapping, one less than the number of helix
\* indices.
C8_SecondIsLastIndex ==
    (pc \in {"main_range", "plot"} /\ cann_tups # <<>>) =>
        /\ DOMAIN helix_basepairs = 0..helix_num
        /\ helix_num = Cardinality(DOMAIN helix_basepairs) - 1

\* create_helices has returned a mapping of two helices and the value 1
C8_Witness ==
    /\ pc = "main_range"
    /\ DOMAIN helix_basepairs = {0, 1}
    /\ helix_num = 1

\* C9: in the walk the first pair opens helix 0; at a position i > 0 the
\* helix index is kept and the pair appended to the current helix exactly
\* when one of its coordinates is one more than the same coordinate of the
\* pair before it, and otherwise the helix index grows by one; no step
\* reorders a pair list or moves a pair; the mapping returned has the helix
\* indices 0..k, k the number of positions where neither strand continues.
C9_WalkStep ==
    /\ (pc = "segment" /\ bp_num < Len(ordered_basepairs)) =>
          LET bp == ordered_basepairs[bp_num + 1]
          IN /\ bp_num' = bp_num + 1
             /\ IF bp_num = 0
                THEN helix_num' = 0 /\ helix_basepairs' = (0 :> <<bp>>)
                ELSE LET prev == ordered_basepairs[bp_num]
                         adjacent == bp[1] = prev[1] + 1 \/ bp[2] = prev[2] + 1
                     IN /\ adjacent =>
                             /\ helix_num' = helix_num
                             /\ helix_basepairs'[helix_num] = Append(helix_basepairs[helix_num], bp)
                        /\ ~adjacent =>
                             /\ helix_num' = helix_num + 1
                             /\ helix_basepairs'[helix_num] = helix_basepairs[helix_num]
    /\ \A h \in DOMAIN helix_basepairs :
          h \in DOMAIN helix_basepairs' /\ IsPrefix(helix_basepairs[h], helix_basepairs'[h])
    /\ (pc' = "main_range" /\ ordered_basepairs' # <<>>) =>
          DOMAIN helix_basepairs' = 0..Breaks(ordered_basepairs')
\* C9: every step of create_helices is a step of the walk described above.
C9_SingleForwardWalk == [][C9_WalkStep]_vars

\* a walk that appended a pair to helix 0 and then opened helix 1
C9_Witness ==
    /\ pc = "main_range"
    /\ Len(ordered_basepairs) = 3
    /\ Len(helix_basepairs[0]) = 2
    /\ helix_num = 1
    /\ Breaks(ordered_basepairs) = 1

\* C10: for a non-empty collection maxresi and minresi are the greatest and
\* the least position over both coordinates of all pairs.
Positions(tups) == {t[1] : t \in Range(tups)} \cup {t[2] : t \in Range(tups)}
C10_GlobalRange ==
    pc = "plot" =>
        /\ maxresi = MaxOf(Positions(cann_tups))
        /\ minresi = MinOf(Positions(cann_tups))

\* the range of a collection whose greatest position is the second
\* coordinate of a pair that does not have the greatest first coordinate
C10_Witness ==
    /\ pc = "plot"
    /\ cann_tups = <<<<0, 2>>, <<1, 1>>>>
    /\ maxresi = 2
    /\ minresi = 0

\* ----------------------------------------------------- properties: read_jv
MatchingLines(file) == {n \in 1..Len(file) : Matches(file[n])}
\* matching lines that end before their third tab-separated field
ShortLines(file) == {n \in MatchingLines(file) : ~HasThirdField(file[n])}
ReadJvDone == pc \in {"returned", "raised"} /\ MatchingLines(jv_file) # {}
\* read_jv failed on line n, which has no third field
FailedOnLine(n) ==
    /\ pc = "raised" /\ exc = [type |-> "IndexError", at |-> -1]
    /\ file_pos = n - 1
    /\ tupled_toret = <<>>
\* the outcome of read_jv is what line n of the file alone gives
OutcomeIsOfLine(n) ==
    IF ~HasThirdField(jv_file[n]) THEN FailedOnLine(n)
    ELSE LET r == FindParens(AnnoResi(jv_file[n]))
         IN /\ (pc = "raised") = r.raised
            /\ r.raised => exc = [type |-> "IndexError", at |-> r.at]
            /\ tupled_toret = r.pairs

\* C7 as claimed, for the pairs returned: the pairs read_jv returns are those
\* find_parens gives on the first line that matches the annotation header;
\* no later line has any effect on them.
C7_FirstMatchingLine ==
    (pc = "returned" /\ MatchingLines(jv_file) # {}) =>
        LET r == FindParens(AnnoResi(jv_file[MinOf(MatchingLines(jv_file))]))
        IN ~r.raised /\ tupled_toret = r.pairs

\* C7 amended: when every matching line has its third tab-separated field,
\* read_jv derives its pairs from the last line that matches the annotation
\* header and no other line, matching or not, has any effect; when some
\* matching line has no third field, read_jv fails with an IndexError on
\* the first such line, whatever the other lines hold.
C7_LastMatchingLine ==
    ReadJvDone =>
        IF ShortLines(jv_file) = {}
        THEN OutcomeIsOfLine(MaxOf(MatchingLines(jv_file)))
        ELSE FailedOnLine(MinOf(ShortLines(jv_file)))

\* a file of two terminated matching lines that give different outcomes, and
\* a line that does not match after them, has been read: the second line's
\* third field ends with a '|', so that its terminator is a segment of its
\* own after the two brackets
C7_Witness ==
    /\ pc = "returned"
    /\ MatchingLines(jv_file) = {1, 2}
    /\ Len(jv_file) = 3
    /\ jv_file[2].nl
    /\ anno_resi = Bound(<<"(", ")", "\n">>)
    /\ tupled_toret = <<<<0, 1>>>>
    /\ FindParens(AnnoResi(jv_file[1])).raised

\* ----------------------------------------------------- properties: readers
\* C2: a contact table and a residue-pair table that encode the same pairs
\* give, after sorted(set(...)), the same pairs in content and in size, also
\* when the residue-pair table lists a pair on both its residues' rows.
C2_FormatsAgree ==
    pc = "done" =>
        /\ OrderedBasepairs(csv_tups) = OrderedBasepairs(bp_tups)
        /\ Len(OrderedBasepairs(csv_tups)) = Len(OrderedBasepairs(bp_tups))
====
